---- MODULE Spec2Model ----
(***************************************************************************)
(* A model of VideoComposer.composeVideo                                   *)
(* (src/src/renderer/src/services/VideoComposer.ts).                       *)
(*                                                                         *)
(* One action per task of the event loop: the code of composeVideo         *)
(* between two awaits runs to completion, so every action is the whole     *)
(* continuation that one event (image loaded, audio metadata, play()       *)
(* settled, animation frame, recorder event) runs.  Time is counted in     *)
(* whole units; a scene duration is a number of these units.               *)
(*                                                                         *)
(* What the browser decides is a choice of the model: whether an image     *)
(* request fires onload, onerror or neither; whether the audio element     *)
(* fires loadedmetadata, error or neither; whether drawFrame throws at a   *)
(* tick; whether a dataavailable event carries data; whether the audio     *)
(* position keeps up with the wall clock.  The wall clock is read only by  *)
(* animate, so it is advanced only between animation frames.               *)
(*                                                                         *)
(* drawFrame and the four caption helpers are operators on the settings    *)
(* of the 2d context and the list of drawing calls made; a string is the   *)
(* sequence of its characters.  Spec runs composeVideo on every short      *)
(* scene list; ProgressSpec on one long scene, for the progress reports;   *)
(* DrawSpec on one captioned scene, for the frames; CaptionSpec calls the  *)
(* caption helpers directly on a range of captions and times.              *)
(***************************************************************************)
EXTENDS Integers, Sequences, FiniteSets

\* ----------------------------------------------------------------- bounds

\* the longest scene list the caller passes
MaxScenes == 2
\* the longest scene duration
MaxDur == 2
\* Date.now() when composeVideo is called
Epoch == 3
\* how far past the end of the timeline the last tick may be delayed
Overrun == 1
\* how far a stalling audio playback may fall behind the wall clock
MaxLag == 1
\* the count of non-empty chunks is kept up to this number
MaxChunks == 1
\* the most scenes and the longest scene of a run that is followed to its end
LoopScenes == 1
LoopDur == 2
\* the longest scene of a run that watches the progress reports
MaxLongDur == 25
\* the most words of a caption, the most letters of a word, the latest start
\* and the longest span of a caption given to a caption helper
MaxWords == 10
MaxWordLen == 9
MaxVaried == 4
MaxStart == 1
MaxSpan == 5
\* the duration of the scene of a run that watches the frames, in tenths of
\* a second
DrawDur == 12
\* maxWidth = this.width * 0.85 of drawSentenceCaption, in widths of a character
LineWidth == 12
\* the most scenes, the longest scene, the most words of a scene text or of a
\* transcription and the latest word time of a caption build
BuildScenes == 2
BuildDur == 2
BuildWords == 2
BuildTime == 3
\* the callers of composeVideo that overlap, and the canvases they create
MaxCallers == 2
MaxCanvases == 3
\* the projects the user creates and the times the editor is mounted
MaxProjects == 2
MaxMounts == 2

\* ------------------------------------------------------ program constants

\* progressPercent > lastProgress + 4
ProgressStep == 4

\* drawKaraokeCaption: const wordsPerLine = 4
WordsPerLine == 4

\* drawSentenceCaption: Math.ceil(progress * words.length) + 4, endWordIdx - 8
SentenceLead == 4

SentenceSpan == 8

\* drawMinimalCaption: Math.ceil(progress * words.length) + 3, endIdx - 6,
\* text.slice(0, 50)
MinimalLead == 3

MinimalSpan == 6

MinimalChars == 50

\* Math.floor(progress * 100)
PercentScale == 100

\* Math.floor(NaN * 100): every comparison with it is false; as lastProgress
\* is never negative, -1 behaves in "x > lastProgress + 4" as NaN does
NaNPercent == 0 - 1

\* ------------------------------------------------------------------ state

VARIABLES
    pc,            \* where composeVideo is suspended
    scenes,        \* the scenes argument: <<[duration, hasUrl]>>
    images,        \* const images: "image" or "placeholder" with its number
    imgFate,       \* what the pending image load will do
    audioFate,     \* what the audio element will do while loading metadata
    playFate,      \* how the pending audio.play() promise settles
    audioErr,      \* audio.error is set
    audioPaused,   \* audio.paused
    audioPos,      \* audio.currentTime
    playCalls,     \* calls of audio.play()
    pauseCalls,    \* calls of audio.pause()
    audioUrl,      \* the object URL of the audio blob
    audioCtx,      \* the AudioContext
    now,           \* Date.now()
    startTime,     \* const startTime
    totalDuration, \* const totalDuration
    sceneTimings,  \* const sceneTimings: <<[start, end, image]>>
    recPhase,      \* the MediaRecorder and its queued events
    recStarts,     \* calls of mediaRecorder.start()
    recStops,      \* calls of mediaRecorder.stop()
    chunks,        \* chunks.length
    lastProgress,  \* let lastProgress
    rafPending,    \* requestAnimationFrame(animate) is outstanding
    tickThrew,     \* the tick that ended in an exception: "no", "first", "later"
    endTick,       \* a tick has run with elapsed >= totalDuration
    composited,    \* drawFrame has returned at least once
    frame,         \* the drawFrame call of the task that has just run, if any
    lateFrame,     \* a frame was composited after mediaRecorder.stop()
    log,           \* the onProgress messages, in order
    result,        \* what the caller got: "pending", "blob", "null"
    blobSize,      \* number of chunks in the returned blob
    loadOutcome,   \* per scene, how its image was obtained: "none", "load", "error"
    captions,      \* the captions argument
    template,      \* captionSettings.template
    ctx,           \* the settings of this.ctx, the 2d context of the canvas
    out,           \* what the last call of drawFrame or of a caption helper did
    built,         \* the captions the editor built last, and what from
    thisCanvas,    \* videoComposer.canvas: 0 for null, else the canvas element
    thisDims,      \* videoComposer.width and height, as the aspect ratio loaded
    canvasCount,   \* canvas elements created by load()
    composing,     \* per caller of composeVideo on the shared instance, its call
    painted,       \* the frame the task that has just run painted, if any
    projects,      \* the store's projects, by id
    currentProject,\* the store's currentProject: 0 for null, else its id
    currentView,   \* App's currentView
    editor,        \* the mounted VideoEditor instance: 0 when unmounted
    mounts,        \* VideoEditor instances mounted so far
    isRunning,     \* isRunning.current of each VideoEditor instance
    pipeline,      \* per project, the runAutomatedPipeline call started for it
    written        \* the store writes of the task that has just run

vars ==
    <<pc, scenes, images, imgFate, audioFate, playFate, audioErr, audioPaused,
      audioPos, playCalls, pauseCalls, audioUrl, audioCtx, now, startTime,
      totalDuration, sceneTimings, recPhase, recStarts, recStops, chunks,
      lastProgress, rafPending, tickThrew, endTick, composited, frame,
      lateFrame, log, result, blobSize, loadOutcome, captions, template, ctx, out,
      built, thisCanvas, thisDims, canvasCount, composing, painted, projects,
      currentProject, currentView, editor, mounts, isRunning, pipeline, written>>

audioVars == <<audioErr, audioPaused, audioPos, playCalls, pauseCalls, audioUrl, audioCtx>>
timingVars == <<totalDuration, sceneTimings>>
recVars == <<recPhase, recStarts, recStops, chunks>>
frameVars == <<composited, lateFrame>>
loopVars == <<startTime, lastProgress, rafPending, tickThrew, endTick>>
loadVars == <<images, imgFate, audioFate, loadOutcome>>
drawVars == <<captions, template, ctx, out>>
shareVars == <<thisCanvas, thisDims, canvasCount, composing, painted>>
storeVars == <<projects, currentProject>>
appVars == <<currentView, editor, mounts, isRunning>>
editorVars == <<built, shareVars, storeVars, appVars, pipeline, written>>
composerVars ==
    <<pc, scenes, loadVars, playFate, audioVars, now, timingVars, recVars,
      loopVars, frameVars, frame, log, result, blobSize, drawVars>>

\* ---------------------------------------------------------------- helpers

Ev(name, n) == [ev |-> name, n |-> n]

\* onProgress(`Recording: ${progressPercent}%`): of a run of consecutive
\* percentage messages the log keeps the latest
Report(lg, progressPercent) ==
    IF Len(lg) > 0 /\ lg[Len(lg)].ev = "RecordingPercent"
    THEN [lg EXCEPT ![Len(lg)] = Ev("RecordingPercent", progressPercent)]
    ELSE Append(lg, Ev("RecordingPercent", progressPercent))

SceneSet == [duration : 0..MaxDur, hasUrl : BOOLEAN]

SceneLists == UNION {[1..n -> SceneSet] : n \in 0..MaxScenes}

\* scenes.reduce((acc, s) => acc + s.duration, 0)
RECURSIVE SumDurations(_)
SumDurations(ss) ==
    IF Len(ss) = 0 THEN 0
    ELSE SumDurations(SubSeq(ss, 1, Len(ss) - 1)) + ss[Len(ss)].duration

\* one entry of sceneTimings (the object pushed in the loop)
IntervalFromZero(currentTime, duration, image) ==
    [start |-> currentTime, end |-> duration, image |-> image]

Interval(currentTime, duration, image) ==
    [start |-> currentTime, end |-> currentTime + duration, image |-> image]

\* the loop "for (let i = 0; i < scenes.length; i++)" with its running currentTime
RECURSIVE TimingsFrom(_, _, _, _, _)
TimingsFrom(ss, imgs, i, currentTime, acc) ==
    IF i > Len(ss) THEN acc
    ELSE TimingsFrom(ss, imgs, i + 1, currentTime + ss[i].duration,
                     Append(acc, Interval(currentTime, ss[i].duration, imgs[i])))

SceneTimingsOf(ss, imgs) == TimingsFrom(ss, imgs, 1, 0, <<>>)

\* (Date.now() - startTime) / 1000
ElapsedNoStart(n, st) == n

Elapsed(n, st) == n - st

\* Math.floor(Math.min(elapsed / totalDuration, 1) * 100); 0/0 is NaN and
\* x/0 is Infinity for x > 0
Percent(elapsed, total) ==
    IF total = 0 THEN (IF elapsed = 0 THEN NaNPercent ELSE PercentScale)
    ELSE IF elapsed >= total THEN PercentScale
    ELSE (PercentScale * elapsed) \div total

\* if (progressPercent > lastProgress + 4)
ShouldReportAtStep(progressPercent, lp) == progressPercent >= lp + ProgressStep

ShouldReport(progressPercent, lp) == progressPercent > lp + ProgressStep

\* if (elapsed < totalDuration) requestAnimationFrame(animate)
AnimateAgainAlways(elapsed, total) == TRUE

AnimateAgain(elapsed, total) == elapsed < total

\* the predicate of sceneTimings.find
InSceneClosed(s, elapsed) == elapsed >= s.start /\ elapsed <= s.end

InScene(s, elapsed) == elapsed >= s.start /\ elapsed < s.end

\* sceneTimings.find(...) || sceneTimings[sceneTimings.length - 1], as an
\* index into sceneTimings; 0 stands for undefined
CurrentScene(timings, elapsed) ==
    LET hits == {i \in 1..Len(timings) : InScene(timings[i], elapsed)}
    IN  IF hits # {} THEN CHOOSE i \in hits : \A j \in hits : i <= j
        ELSE Len(timings)

\* what loadImage resolves with for the scene at index i (from 0)
LoadedImage(i) == [kind |-> "image", num |-> i + 1]

\* createPlaceholder(i + 1) for the scene at index i (from 0)
PlaceholderZeroBased(i) == [kind |-> "placeholder", num |-> i]

PlaceholderFor(i) == [kind |-> "placeholder", num |-> i + 1]

\* what an image request may do: fire onload, fire onerror, or fire neither
ImageFates == {"load", "error", "never"}

\* what the audio element may do: fire loadedmetadata, fire error, or neither
AudioFates == {"metadata", "error", "never"}

\* audio.play(): the promise is rejected (NotSupportedError) when the source
\* failed to load, and the element stays paused; otherwise playback starts
\* and the promise resolves
PlayFate(err) == IF err THEN "reject" ELSE "resolve"

\* the task that has just run made no drawFrame call
NoFrame == [drawn |-> FALSE, scene |-> 0, currentTime |-> 0, wall |-> 0, audio |-> 0]

\* drawFrame(currentScene.image, captions, captionSettings, elapsed), with
\* the readings of the wall clock and of audio.currentTime at the call
Frame(scene, elapsed) ==
    [drawn |-> TRUE, scene |-> scene, currentTime |-> elapsed, wall |-> now, audio |-> audioPos]

\* ---------------------------------------------------------------- strings

\* a string is the sequence of its characters
Min(a, b) == IF a < b THEN a ELSE b

Max(a, b) == IF a > b THEN a ELSE b

\* Math.ceil(num / den) and Math.floor(num / den) for num >= 0 and den > 0
Ceil(num, den) == (num + den - 1) \div den

Floor(num, den) == num \div den

LowerCase == <<"d", "e", "h", "l", "o", "r", "w">>

UpperCase == <<"D", "E", "H", "L", "O", "R", "W">>

\* word.toUpperCase()
ToUpperCase(str) ==
    [i \in 1..Len(str) |->
        IF \E k \in 1..Len(LowerCase) : LowerCase[k] = str[i]
        THEN UpperCase[CHOOSE k \in 1..Len(LowerCase) : LowerCase[k] = str[i]]
        ELSE str[i]]

\* the k-th smallest member of a set of numbers
Nth(S, k) == CHOOSE i \in S : Cardinality({j \in S : j <= i}) = k

\* text.split(' '): the pieces between one blank (or an end) and the next
Split(str) ==
    LET seps == {i \in 1..Len(str) : str[i] = " "}
        n == Cardinality(seps) + 1
        From(k) == IF k = 1 THEN 1 ELSE Nth(seps, k - 1) + 1
        To(k) == IF k = n THEN Len(str) ELSE Nth(seps, k) - 1
    IN  [k \in 1..n |-> SubSeq(str, From(k), To(k))]

\* text.split(/\s+/): a run of blanks separates like one blank
Squeeze(str) ==
    LET kept == {i \in 1..Len(str) : ~(str[i] = " " /\ i > 1 /\ str[i - 1] = " ")}
    IN  [k \in 1..Cardinality(kept) |-> str[Nth(kept, k)]]

SplitBlanks(str) == Split(Squeeze(str))

\* strs.join(' ')
RECURSIVE Join(_)
Join(strs) ==
    IF Len(strs) = 0 THEN <<>>
    ELSE IF Len(strs) = 1 THEN strs[1]
    ELSE strs[1] \o <<" ">> \o Join(Tail(strs))

\* seq.slice(from, to), for 0 <= from
Slice(seq, from, to) == SubSeq(seq, from + 1, Min(to, Len(seq)))

\* ctx.measureText(str).width, in a font whose characters are one unit wide
MeasureText(str) == Len(str)

\* ------------------------------------------------------- the 2d context

\* the settings of a context returned by canvas.getContext('2d')
CtxInit ==
    [fillStyle |-> "#000000", font |-> [weight |-> "normal", size |-> "10px"],
     shadowColor |-> "rgba(0, 0, 0, 0)", shadowBlur |-> 0, shadowOffsetY |-> 0]

\* `bold ${fontSize}px ${settings.fontFamily}, system-ui`
Font(weight, size) == [weight |-> weight, size |-> size]

NoImage == [kind |-> "none", num |-> 0]

\* the task that has just run made no call on the context
NoOut == [drawn |-> FALSE]

\* the settings that bear on a call of a drawing method: the font bears on
\* fillText only
Effective(name, c) ==
    IF name = "fillText" THEN c ELSE [f \in (DOMAIN c) \ {"font"} |-> c[f]]

\* a call of a drawing method, with the settings in effect at the call
Emit(s, name, text, image) ==
    [s EXCEPT !.ops = Append(@, [op |-> name, text |-> text, image |-> image,
                                 ctx |-> Effective(name, s.ctx)])]

\* the words drawn by a sequence of calls, in order
TextOps(ops) == SelectSeq(ops, LAMBDA o : o.op = "fillText")

\* ------------------------------------------------------ caption windows

\* captions.find((c) => currentTime >= c.startTime && currentTime < c.endTime)
\* as an index into captions; 0 stands for undefined
ActiveCaptionLast(caps, t) ==
    LET hits == {i \in 1..Len(caps) : t >= caps[i].startTime /\ t < caps[i].endTime}
    IN  IF hits = {} THEN 0 ELSE CHOOSE i \in hits : \A j \in hits : i >= j

ActiveCaption(caps, t) ==
    LET hits == {i \in 1..Len(caps) : t >= caps[i].startTime /\ t < caps[i].endTime}
    IN  IF hits = {} THEN 0 ELSE CHOOSE i \in hits : \A j \in hits : i <= j

\* the numerator and the denominator of progress * words.length
ProgressNum(caption, t, len) == (t - caption.startTime) * len

ProgressDen(caption) == caption.endTime - caption.startTime

\* currentWordIdx of drawKaraokeCaption (indices from 0, -1 when no word
\* has started): the two loops
KaraokeIndexFirstEnded(words, t) ==
    LET hits == {i \in 1..Len(words) : t >= words[i].start /\ t < words[i].end}
        ended == {i \in 1..Len(words) : t >= words[i].end}
    IN  IF hits # {} THEN (CHOOSE i \in hits : \A j \in hits : i <= j) - 1
        ELSE IF ended # {} THEN (CHOOSE i \in ended : \A j \in ended : i <= j) - 1
        ELSE 0 - 1

KaraokeIndex(words, t) ==
    LET hits == {i \in 1..Len(words) : t >= words[i].start /\ t < words[i].end}
        ended == {i \in 1..Len(words) : t >= words[i].end}
    IN  IF hits # {} THEN (CHOOSE i \in hits : \A j \in hits : i <= j) - 1
        ELSE IF ended # {} THEN (CHOOSE i \in ended : \A j \in ended : i >= j) - 1
        ELSE 0 - 1

\* const totalWordsToShow = wordsPerLine * 2
TotalWordsToShow == WordsPerLine * 2

\* startIdx and endIdx of drawKaraokeCaption
KaraokeWindowNoReclamp(len, currentWordIdx) ==
    LET startIdx == Max(0, currentWordIdx - WordsPerLine + 1)
    IN  [startIdx |-> startIdx, endIdx |-> Min(len, startIdx + TotalWordsToShow)]

KaraokeWindowUnclamped(len, currentWordIdx) ==
    LET startIdx == Max(0, currentWordIdx - WordsPerLine + 1)
    IN  [startIdx |-> startIdx, endIdx |-> startIdx + TotalWordsToShow]

KaraokeWindow(len, currentWordIdx) ==
    LET startIdx == Max(0, currentWordIdx - WordsPerLine + 1)
        endIdx == Min(len, startIdx + TotalWordsToShow)
    IN  [startIdx |-> IF endIdx = len /\ endIdx - startIdx < TotalWordsToShow
                      THEN Max(0, endIdx - TotalWordsToShow) ELSE startIdx,
         endIdx |-> endIdx]

\* lineStartIdx of the second drawWordLine call
Line2StartAgain(startIdx, line1Len) == startIdx

Line2Start(startIdx, line1Len) == startIdx + line1Len

\* startWordIdx and endWordIdx of drawSentenceCaption
SentenceWindowShort(len, num, den) ==
    LET endWordIdx == Min(len, Ceil(num, den) + MinimalLead)
    IN  [startWordIdx |-> Max(0, endWordIdx - SentenceSpan), endWordIdx |-> endWordIdx]

SentenceWindow(len, num, den) ==
    LET endWordIdx == Min(len, Ceil(num, den) + SentenceLead)
    IN  [startWordIdx |-> Max(0, endWordIdx - SentenceSpan), endWordIdx |-> endWordIdx]

\* startIdx and endIdx of drawMinimalCaption
MinimalWindow(len, num, den) ==
    LET endIdx == Min(len, Ceil(num, den) + MinimalLead)
    IN  [startIdx |-> Max(0, endIdx - MinimalSpan), endIdx |-> endIdx]

\* if (lines.length >= 2) break
LinesNeverFull(lines) == FALSE

LinesFull(lines) == Len(lines) >= 2

\* if (currentLine && lines.length < 2) lines.push(currentLine)
WrapEnd(currentLine, lines) ==
    IF currentLine # <<>> /\ Len(lines) < 2 THEN Append(lines, currentLine) ELSE lines

\* the loop "for (const word of visibleText.split(' '))"
RECURSIVE WrapFrom(_, _, _, _, _)
WrapFrom(strs, i, currentLine, lines, maxWidth) ==
    IF i > Len(strs) THEN WrapEnd(currentLine, lines)
    ELSE LET word == strs[i]
             testLine == currentLine \o (IF currentLine # <<>> THEN <<" ">> ELSE <<>>) \o word
         IN  IF MeasureText(testLine) > maxWidth /\ currentLine # <<>>
             THEN IF LinesFull(Append(lines, currentLine))
                  THEN WrapEnd(word, Append(lines, currentLine))
                  ELSE WrapFrom(strs, i + 1, word, Append(lines, currentLine), maxWidth)
             ELSE WrapFrom(strs, i + 1, testLine, lines, maxWidth)

Wrap(visibleText, maxWidth) == WrapFrom(Split(visibleText), 1, <<>>, <<>>, maxWidth)

\* ------------------------------------------------------ caption drawing
\* a drawing helper takes and returns s = [ctx |-> settings, ops |-> calls]

\* the three branches of drawWordLine's forEach body before fillText
WordStyleFrom(c, globalIdx, currentWordIdx) ==
    IF globalIdx >= currentWordIdx
    THEN [c EXCEPT !.fillStyle = "#FFD700", !.shadowColor = "#FFD700",
                   !.shadowBlur = 15, !.font = Font("bold", "fontSize*1.1")]
    ELSE [c EXCEPT !.fillStyle = "settings.textColor", !.shadowBlur = 0,
                   !.font = Font("bold", "fontSize")]

WordStyle(c, globalIdx, currentWordIdx) ==
    IF globalIdx = currentWordIdx
    THEN [c EXCEPT !.fillStyle = "#FFD700", !.shadowColor = "#FFD700",
                   !.shadowBlur = 15, !.font = Font("bold", "fontSize*1.1")]
    ELSE IF globalIdx < currentWordIdx
    THEN [c EXCEPT !.fillStyle = "settings.textColor", !.shadowBlur = 0,
                   !.font = Font("bold", "fontSize")]
    ELSE [c EXCEPT !.fillStyle = "rgba(255, 255, 255, 0.5)", !.shadowBlur = 0,
                   !.font = Font("bold", "fontSize")]

\* words.forEach((word, i) => ...) of drawWordLine, from index i
RECURSIVE DrawWordsFrom(_, _, _, _, _)
DrawWordsFrom(s, words, i, currentWordIdx, lineStartIdx) ==
    IF i >= Len(words) THEN s
    ELSE LET styled == [s EXCEPT !.ctx = WordStyle(@, lineStartIdx + i, currentWordIdx)]
             drawn == Emit(styled, "fillText", words[i + 1].word, NoImage)
             reset == [drawn EXCEPT !.ctx.shadowBlur = 0,
                                    !.ctx.font = Font("bold", "fontSize")]
         IN  DrawWordsFrom(reset, words, i + 1, currentWordIdx, lineStartIdx)

DrawWordLine(s, words, currentWordIdx, lineStartIdx) ==
    DrawWordsFrom(s, words, 0, currentWordIdx, lineStartIdx)

\* lines.forEach((line, i) => ctx.fillText(line, ...)) of drawSentenceCaption
RECURSIVE DrawLinesFrom(_, _, _)
DrawLinesFrom(s, lines, i) ==
    IF i > Len(lines) THEN s
    ELSE DrawLinesFrom(Emit(s, "fillText", lines[i], NoImage), lines, i + 1)

DrawSentenceCaption(s, caption, t) ==
    LET s1 == [s EXCEPT !.ctx.font = Font("bold", "fontSize")]
        words == Split(caption.text)
        win == SentenceWindow(Len(words), ProgressNum(caption, t, Len(words)),
                              ProgressDen(caption))
        visibleText == Join(Slice(words, win.startWordIdx, win.endWordIdx))
        lines == Wrap(visibleText, LineWidth)
        s2 == Emit([s1 EXCEPT !.ctx.fillStyle = "settings.backgroundColor"],
                   "fill", <<>>, NoImage)
    IN  DrawLinesFrom([s2 EXCEPT !.ctx.fillStyle = "settings.textColor"], lines, 1)

DrawKaraokeCaption(s, caption, t) ==
    LET s1 == [s EXCEPT !.ctx.font = Font("bold", "fontSize")]
        words == caption.words
        currentWordIdx == KaraokeIndex(words, t)
        win == KaraokeWindow(Len(words), currentWordIdx)
        visibleWords == Slice(words, win.startIdx, win.endIdx)
        half == Ceil(Len(visibleWords), 2)
        line1Words == Slice(visibleWords, 0, half)
        line2Words == Slice(visibleWords, half, Len(visibleWords))
        s2 == Emit([s1 EXCEPT !.ctx.fillStyle = "settings.backgroundColor"],
                   "fill", <<>>, NoImage)
        s3 == DrawWordLine(s2, line1Words, currentWordIdx, win.startIdx)
    IN  IF Len(words) = 0 THEN DrawSentenceCaption(s1, caption, t)
        ELSE IF Len(line2Words) > 0
        THEN DrawWordLine(s3, line2Words, currentWordIdx,
                          Line2Start(win.startIdx, Len(line1Words)))
        ELSE s3

\* currentWord of drawWordByWordCaption; the empty string when there is none
CurrentWord(caption, t) ==
    IF Len(caption.words) > 0
    THEN LET hits == {i \in 1..Len(caption.words) :
                         t >= caption.words[i].start /\ t < caption.words[i].end}
         IN  IF hits = {} THEN <<>>
             ELSE ToUpperCase(caption.words[CHOOSE i \in hits : \A j \in hits : i <= j].word)
    ELSE LET words == SplitBlanks(caption.text)
             wordIdx == Floor(ProgressNum(caption, t, Len(words)), ProgressDen(caption))
         IN  ToUpperCase(words[Min(wordIdx, Len(words) - 1) + 1])

DrawWordByWordCaption(s, caption, t) ==
    LET s1 == [s EXCEPT !.ctx.font = Font("bold", "fontSize*2")]
        currentWord == CurrentWord(caption, t)
        s2 == [s1 EXCEPT !.ctx.fillStyle = "settings.textColor",
                         !.ctx.shadowColor = "rgba(0, 0, 0, 0.9)",
                         !.ctx.shadowBlur = 30, !.ctx.shadowOffsetY = 5]
        s3 == Emit(s2, "fillText", currentWord, NoImage)
    IN  IF currentWord = <<>> THEN s1 ELSE [s3 EXCEPT !.ctx.shadowBlur = 0]

DrawMinimalCaption(s, caption, t) ==
    LET s1 == [s EXCEPT !.ctx.font = Font("500", "small"),
                        !.ctx.fillStyle = "rgba(255, 255, 255, 0.9)",
                        !.ctx.shadowColor = "rgba(0, 0, 0, 0.8)",
                        !.ctx.shadowBlur = 10]
        words == Split(caption.text)
        win == MinimalWindow(Len(words), ProgressNum(caption, t, Len(words)),
                             ProgressDen(caption))
        text == Join(Slice(words, win.startIdx, win.endIdx))
        s2 == Emit(s1, "fillText", Slice(text, 0, MinimalChars), NoImage)
    IN  [s2 EXCEPT !.ctx.shadowBlur = 0]

Templates == {"karaoke", "word-by-word", "sentence", "minimal"}

\* the switch on settings.template
DrawCaption(s, caption, tmpl, t) ==
    CASE tmpl = "karaoke" -> DrawKaraokeCaption(s, caption, t)
      [] tmpl = "word-by-word" -> DrawWordByWordCaption(s, caption, t)
      [] tmpl = "sentence" -> DrawSentenceCaption(s, caption, t)
      [] tmpl = "minimal" -> DrawMinimalCaption(s, caption, t)

\* what a call on the context c left behind: the caption it chose (an index
\* into captions, 0 for none), its calls and the settings after it
Out(s, k, t) == [drawn |-> TRUE, t |-> t, caption |-> k, ctx |-> s.ctx, ops |-> s.ops]

\* drawFrame(image, captions, settings, currentTime) on the context c
DrawFrame(c, image, caps, tmpl, t) ==
    LET s1 == Emit([ctx |-> [c EXCEPT !.fillStyle = "#000000"], ops |-> <<>>],
                   "fillRect", <<>>, NoImage)
        s2 == Emit(s1, "drawImage", <<>>, image)
        k == ActiveCaption(caps, t)
    IN  Out(IF k = 0 THEN s2 ELSE DrawCaption(s2, caps[k], tmpl, t), k, t)

\* ------------------------------------------------------------------- Init

\* ----------------------------------------------- the editor and the store

\* no captions built yet
NoBuilt == [from |-> "none", scenes |-> <<>>, words |-> <<>>, captions |-> <<>>]

\* the callers of composeVideo on the shared videoComposer
Callers == 1..MaxCallers
\* a caller that is not inside composeVideo
NoCall == [at |-> "idle", aspectRatio |-> "9:16", canvas |-> 0, recorded |-> 0]
\* no frame painted by the last task
NoPaint == [by |-> 0, canvas |-> 0, dims |-> "9:16"]

\* the ids of the projects the user creates
ProjectIds == 1..MaxProjects
\* the VideoEditor instances React mounts
Editors == 1..MaxMounts
\* a project not created yet
NoProject ==
    [status |-> "none", script |-> FALSE, images |-> FALSE, audioBlob |-> FALSE,
     captions |-> FALSE, videoBlob |-> FALSE]
\* no pipeline run started for a project
NoRun == [at |-> "none", editor |-> 0, project |-> 0]

Init ==
    /\ pc = "idle"
    /\ scenes = <<>>
    /\ images = <<>>
    /\ imgFate = "none"
    /\ audioFate = "none"
    /\ playFate = "none"
    /\ audioErr = FALSE
    /\ audioPaused = TRUE
    /\ audioPos = 0
    /\ playCalls = 0
    /\ pauseCalls = 0
    /\ audioUrl = "none"
    /\ audioCtx = "none"
    /\ now = Epoch
    /\ startTime = 0
    /\ totalDuration = 0
    /\ sceneTimings = <<>>
    /\ recPhase = "none"
    /\ recStarts = 0
    /\ recStops = 0
    /\ chunks = 0
    /\ lastProgress = 0
    /\ rafPending = FALSE
    /\ tickThrew = "no"
    /\ endTick = FALSE
    /\ composited = FALSE
    /\ frame = NoFrame
    /\ lateFrame = FALSE
    /\ log = <<>>
    /\ result = "pending"
    /\ blobSize = 0
    /\ loadOutcome = <<>>
    /\ captions = <<>>
    /\ template = "karaoke"
    /\ ctx = CtxInit
    /\ out = NoOut
    /\ built = NoBuilt
    /\ thisCanvas = 0
    /\ thisDims = "9:16"
    /\ canvasCount = 0
    /\ composing = [r \in Callers |-> NoCall]
    /\ painted = NoPaint
    /\ projects = [p \in ProjectIds |-> NoProject]
    /\ currentProject = 0
    /\ currentView = "dashboard"
    /\ editor = 0
    /\ mounts = 0
    /\ isRunning = [e \in Editors |-> FALSE]
    /\ pipeline = [p \in ProjectIds |-> NoRun]
    /\ written = {}

\* ---------------------------------------------------------------- actions

\* the catch block of composeVideo: report and return null
CatchTwice(lg) ==
    /\ log' = Append(Append(lg, Ev("Error", 0)), Ev("Error", 0))
    /\ result' = "null"
    /\ pc' = "done"

Catch(lg) ==
    /\ log' = Append(lg, Ev("Error", 0))
    /\ result' = "null"
    /\ pc' = "done"

\* the image loop from the point where imgs have been pushed, up to the next
\* await: the next loadImage or createPlaceholder, or the audio metadata
LoadNext(ss, imgs, oc, lg) ==
    /\ images' = imgs
    /\ IF Len(imgs) < Len(ss)
       THEN /\ audioFate' = audioFate
            /\ audioUrl' = audioUrl
            /\ IF ss[Len(imgs) + 1].hasUrl
               THEN /\ log' = Append(lg, Ev("LoadingImage", Len(imgs) + 1))
                    /\ pc' = "awaitImage"
                    /\ \E f \in ImageFates : imgFate' = f
                    /\ loadOutcome' = oc
               ELSE /\ log' = lg
                    /\ pc' = "awaitPlaceholder"
                    /\ imgFate' = "none"
                    /\ loadOutcome' = Append(oc, "none")
       ELSE /\ log' = Append(lg, Ev("PreparingAudio", 0))
            /\ loadOutcome' = oc
            /\ audioUrl' = "live"
            /\ pc' = "awaitAudio"
            /\ imgFate' = "none"
            /\ \E f \in AudioFates : audioFate' = f

\* composeVideo(scenes, ...) up to its first await on an asset
ComposeVideo(ss, caps, captionSettings) ==
    /\ frame' = NoFrame
    /\ UNCHANGED editorVars
    /\ out' = NoOut
    /\ pc = "idle"
    /\ scenes' = ss
    /\ captions' = caps
    /\ template' = captionSettings
    /\ ctx' = CtxInit
    /\ LoadNext(ss, <<>>, <<>>, <<Ev("LoadingImages", 0)>>)
    /\ UNCHANGED <<playFate, audioErr, audioPaused, audioPos, playCalls,
                   pauseCalls, audioCtx, now, timingVars, recVars, loopVars,
                   frameVars, result, blobSize>>

\* a call with any list of scenes, and no captions
Call == \E ss \in SceneLists : ComposeVideo(ss, <<>>, "karaoke")

\* img.onload of loadImage
ImageLoaded ==
    /\ frame' = NoFrame
    /\ UNCHANGED editorVars
    /\ out' = NoOut
    /\ UNCHANGED <<captions, template, ctx>>
    /\ pc = "awaitImage"
    /\ imgFate = "load"
    /\ LoadNext(scenes, Append(images, LoadedImage(Len(images))),
                Append(loadOutcome, "load"), log)
    /\ UNCHANGED <<scenes, playFate, audioErr, audioPaused, audioPos, playCalls,
                   pauseCalls, audioCtx, now, timingVars, recVars, loopVars,
                   frameVars, result, blobSize>>

\* img.onerror of loadImage: the catch calls createPlaceholder(i + 1)
ImageError ==
    /\ frame' = NoFrame
    /\ UNCHANGED editorVars
    /\ out' = NoOut
    /\ UNCHANGED <<captions, template, ctx>>
    /\ pc = "awaitImage"
    /\ imgFate = "error"
    /\ pc' = "awaitPlaceholder"
    /\ imgFate' = "none"
    /\ loadOutcome' = Append(loadOutcome, "error")
    /\ UNCHANGED <<scenes, images, audioFate, playFate, audioVars, now,
                   timingVars, recVars, loopVars, frameVars, log, result, blobSize>>

\* img.onload of createPlaceholder(i + 1)
PlaceholderLoaded ==
    /\ frame' = NoFrame
    /\ UNCHANGED editorVars
    /\ out' = NoOut
    /\ UNCHANGED <<captions, template, ctx>>
    /\ pc = "awaitPlaceholder"
    /\ LoadNext(scenes, Append(images, PlaceholderFor(Len(images))), loadOutcome, log)
    /\ UNCHANGED <<scenes, playFate, audioErr, audioPaused, audioPos, playCalls,
                   pauseCalls, audioCtx, now, timingVars, recVars, loopVars,
                   frameVars, result, blobSize>>

\* composeVideo from the end of the metadata wait to "await audio.play()":
\* both audio.onloadedmetadata and audio.onerror resolve the wait
SetUpRecording(err) ==
    LET lg == Append(log, Ev("SettingUp", 0))
    IN  /\ frame' = NoFrame
        /\ UNCHANGED editorVars
        /\ out' = NoOut
        /\ UNCHANGED <<captions, template, ctx>>
        /\ audioErr' = err
        /\ audioFate' = "none"
        /\ totalDuration' = SumDurations(scenes)
        /\ sceneTimings' = SceneTimingsOf(scenes, images)
        /\ audioCtx' = "running"
        /\ log' = Append(lg, Ev("Recording", 0))
        /\ recPhase' = "recording"
        /\ recStarts' = recStarts + 1
        /\ audioPos' = 0
        /\ playCalls' = playCalls + 1
        /\ playFate' = PlayFate(err)
        /\ audioPaused' = err
        /\ pc' = "awaitPlay"
        /\ UNCHANGED <<scenes, images, imgFate, loadOutcome, pauseCalls, audioUrl,
                       now, recStops, chunks, loopVars, frameVars, result, blobSize>>

\* audio.onloadedmetadata
AudioLoadedMetadata ==
    /\ pc = "awaitAudio"
    /\ audioFate = "metadata"
    /\ SetUpRecording(FALSE)

\* audio.onerror
AudioError ==
    /\ pc = "awaitAudio"
    /\ audioFate = "error"
    /\ SetUpRecording(TRUE)

\* one call of animate, with startTime st and lastProgress lp.  inExecutor:
\* the call made inside the executor of the videoBlob promise, where an
\* exception rejects the promise and so reaches the catch block; a call made
\* by requestAnimationFrame has no handler around it.  drawFrame may throw;
\* currentScene.image throws when sceneTimings is empty.
Animate(st, lp, inExecutor) ==
    LET elapsed == Elapsed(now, st)
        progressPercent == Percent(elapsed, totalDuration)
        report == ShouldReport(progressPercent, lp)
        lg == IF report THEN Report(log, progressPercent) ELSE log
        cur == CurrentScene(sceneTimings, elapsed)
    IN  /\ UNCHANGED editorVars
        /\ lastProgress' = IF report THEN progressPercent ELSE lp
        /\ endTick' = (endTick \/ elapsed >= totalDuration)
        /\ \E throws \in (IF cur = 0 THEN {TRUE} ELSE BOOLEAN) :
            IF throws
            THEN /\ tickThrew' = IF inExecutor THEN "first" ELSE "later"
                 /\ rafPending' = FALSE
                 /\ IF inExecutor
                    THEN Catch(lg)
                    ELSE log' = lg /\ pc' = pc /\ result' = result
                 /\ frame' = NoFrame
                 /\ out' = NoOut
                 /\ ctx' = ctx
                 /\ UNCHANGED <<frameVars, audioPaused, pauseCalls, recPhase, recStops>>
            ELSE /\ tickThrew' = tickThrew
                 /\ composited' = TRUE
                 /\ frame' = Frame(cur, elapsed)
                 /\ out' = DrawFrame(ctx, sceneTimings[cur].image, captions, template, elapsed)
                 /\ ctx' = out'.ctx
                 /\ lateFrame' = (lateFrame \/ recStops > 0)
                 /\ log' = lg
                 /\ pc' = "awaitStop"
                 /\ result' = result
                 /\ IF AnimateAgain(elapsed, totalDuration)
                    THEN /\ rafPending' = TRUE
                         /\ UNCHANGED <<audioPaused, pauseCalls, recPhase, recStops>>
                    ELSE /\ rafPending' = FALSE
                         /\ audioPaused' = TRUE
                         /\ pauseCalls' = pauseCalls + 1
                         /\ recPhase' = "flushing"
                         /\ recStops' = recStops + 1

\* the promise of audio.play() resolves: startTime, lastProgress, and the
\* first call of animate inside the executor of the videoBlob promise
PlayResolved ==
    /\ UNCHANGED <<captions, template>>
    /\ pc = "awaitPlay"
    /\ playFate = "resolve"
    /\ playFate' = "none"
    /\ startTime' = now
    /\ Animate(now, 0, TRUE)
    /\ UNCHANGED <<scenes, loadVars, audioErr, audioPos, playCalls, audioUrl,
                   audioCtx, now, timingVars, recStarts, chunks, blobSize>>

\* the promise of audio.play() is rejected: the catch block
PlayRejected ==
    /\ frame' = NoFrame
    /\ UNCHANGED editorVars
    /\ out' = NoOut
    /\ UNCHANGED <<captions, template, ctx>>
    /\ pc = "awaitPlay"
    /\ playFate = "reject"
    /\ playFate' = "none"
    /\ Catch(log)
    /\ UNCHANGED <<scenes, loadVars, audioVars, now, timingVars, recVars,
                   loopVars, frameVars, blobSize>>

\* a call of animate by requestAnimationFrame
Tick ==
    /\ UNCHANGED <<captions, template>>
    /\ rafPending
    /\ Animate(startTime, lastProgress, FALSE)
    /\ UNCHANGED <<scenes, loadVars, playFate, audioErr, audioPos, playCalls,
                   audioUrl, audioCtx, now, startTime, timingVars, recStarts,
                   chunks, blobSize>>

\* mediaRecorder.ondataavailable: every timeslice while recording, and once
\* more after stop(), before the stop event; the data may be empty
DataAvailable ==
    /\ frame' = NoFrame
    /\ UNCHANGED editorVars
    /\ out' = NoOut
    /\ UNCHANGED <<captions, template, ctx>>
    /\ recPhase \in {"recording", "flushing"}
    /\ \E size \in 0..1 :
        chunks' = IF size > 0 /\ chunks < MaxChunks THEN chunks + 1 ELSE chunks
    /\ recPhase' = IF recPhase = "flushing" THEN "stopping" ELSE recPhase
    /\ UNCHANGED <<pc, scenes, loadVars, playFate, audioVars, now, timingVars,
                   recStarts, recStops, loopVars, frameVars, log, result, blobSize>>

\* mediaRecorder.onstop, and composeVideo from the videoBlob promise to return
RecorderStopped ==
    /\ frame' = NoFrame
    /\ UNCHANGED editorVars
    /\ out' = NoOut
    /\ UNCHANGED <<captions, template, ctx>>
    /\ recPhase = "stopping"
    /\ recPhase' = "stopped"
    /\ log' = Append(Append(log, Ev("Finalizing", 0)), Ev("VideoReady", 0))
    /\ blobSize' = chunks
    /\ audioCtx' = "closed"
    /\ audioUrl' = "revoked"
    /\ result' = "blob"
    /\ pc' = "done"
    /\ UNCHANGED <<scenes, loadVars, playFate, audioErr, audioPaused, audioPos,
                   playCalls, pauseCalls, now, timingVars, recStarts, recStops,
                   chunks, loopVars, frameVars>>

\* the wall clock moves on between two animation frames; the audio position
\* moves with it while the audio plays, unless playback stalls
Advance ==
    /\ frame' = NoFrame
    /\ UNCHANGED editorVars
    /\ out' = NoOut
    /\ UNCHANGED <<captions, template, ctx>>
    /\ rafPending
    /\ Elapsed(now, startTime) < totalDuration + Overrun
    /\ now' = now + 1
    /\ \/ ~audioPaused /\ audioPos' = audioPos + 1
       \/ (audioPaused \/ Elapsed(now, startTime) - audioPos < MaxLag) /\ audioPos' = audioPos
    /\ UNCHANGED <<pc, scenes, loadVars, playFate, audioErr, audioPaused,
                   playCalls, pauseCalls, audioUrl, audioCtx, timingVars,
                   recVars, loopVars, frameVars, log, result, blobSize>>

Next ==
    \/ Call
    \/ ImageLoaded
    \/ ImageError
    \/ PlaceholderLoaded
    \/ AudioLoadedMetadata
    \/ AudioError
    \/ PlayResolved
    \/ PlayRejected
    \/ Tick
    \/ DataAvailable
    \/ RecorderStopped
    \/ Advance

Spec == Init /\ [][Next]_vars

\* a word of n letters
Letters(n) == [i \in 1..n |-> "o"]

\* a caption of n words spoken one after the other from time 1 on, one time
\* unit each; the caption starts one unit before and ends one unit after
TimedWords(n) ==
    [startTime |-> 0, endTime |-> n + 2,
     text |-> Join([i \in 1..n |-> Letters(i)]),
     words |-> [i \in 1..n |-> [word |-> Letters(i), start |-> i, end |-> i + 1]]]

\* the caption of the spec's scenario, in tenths of a second
HelloWorld ==
    [startTime |-> 0, endTime |-> 12,
     text |-> <<"H", "e", "l", "l", "o", " ", "w", "o", "r", "l", "d">>,
     words |-> <<[word |-> <<"H", "e", "l", "l", "o">>, start |-> 0, end |-> 5],
                 [word |-> <<"w", "o", "r", "l", "d">>, start |-> 5, end |-> 12]>>]

\* a caption whose words leave a gap, and whose last two words overlap
Gapped ==
    [startTime |-> 2, endTime |-> 10,
     text |-> <<"h", "e", " ", "o", "l", "d", " ", "r", "e", "d", " ", "l", "o", "w">>,
     words |-> <<[word |-> <<"h", "e">>, start |-> 3, end |-> 4],
                 [word |-> <<"o", "l", "d">>, start |-> 4, end |-> 5],
                 [word |-> <<"r", "e", "d">>, start |-> 7, end |-> 9],
                 [word |-> <<"l", "o", "w">>, start |-> 8, end |-> 10]>>]

KaraokeInputs == {HelloWorld, Gapped} \cup {TimedWords(n) : n \in 1..MaxWords}

\* the lengths of words: short, long, and wider than a line
WordLens == {1, MaxWordLen, LineWidth + 1}

\* word lists: up to MaxWords words of one length, and up to MaxVaried
\* words of any of the lengths
WordLists ==
    {[i \in 1..n |-> Letters(len)] : n \in 1..MaxWords, len \in WordLens}
    \cup UNION {[1..n -> {Letters(len) : len \in WordLens}] : n \in 1..MaxVaried}

\* captions without word timings
PlainInputs ==
    {[startTime |-> a, endTime |-> a + d, text |-> Join(strs), words |-> <<>>] :
        a \in 0..MaxStart, d \in 1..MaxSpan, strs \in WordLists}

\* captions without word timings
Plain ==
    [startTime |-> 0, endTime |-> 6,
     text |-> <<"h", "e", " ", "o", "l", "d", " ", "r", "e", "d">>, words |-> <<>>]

Late ==
    [startTime |-> 8, endTime |-> 12, text |-> <<"l", "o", "w">>, words |-> <<>>]

\* caption lists: none, one caption, two that overlap, two with a gap
CaptionLists ==
    {<<>>, <<HelloWorld>>, <<Gapped>>, <<Plain>>, <<Plain, HelloWorld>>,
     <<HelloWorld, Plain>>, <<Plain, Late>>}

\* a call with one scene without an image, captions and a template
CallCaptioned ==
    \E caps \in CaptionLists, tmpl \in Templates :
        ComposeVideo(<<[duration |-> DrawDur, hasUrl |-> FALSE]>>, caps, tmpl)

DrawNext ==
    \/ CallCaptioned
    \/ PlaceholderLoaded
    \/ AudioLoadedMetadata
    \/ PlayResolved
    \/ Tick
    \/ Advance

\* the runs of one captioned scene whose audio loads, up to the last frame
DrawSpec == Init /\ [][DrawNext]_vars

\* a caption helper called on the context of a composer just loaded
HelperCall(caption, tmpl, t) ==
    /\ t >= caption.startTime
    /\ t < caption.endTime
    /\ captions' = <<caption>>
    /\ template' = tmpl
    /\ out' = Out(DrawCaption([ctx |-> CtxInit, ops |-> <<>>], caption, tmpl, t), 1, t)
    /\ ctx' = out'.ctx
    /\ frame' = NoFrame
    /\ UNCHANGED editorVars
    /\ UNCHANGED <<pc, scenes, loadVars, playFate, audioVars, now, timingVars,
                   recVars, loopVars, frameVars, log, result, blobSize>>

KaraokeCall ==
    /\ pc = "idle"
    /\ ctx = CtxInit
    /\ \E caption \in KaraokeInputs, t \in 0..(MaxWords + 2) :
           HelperCall(caption, "karaoke", t)

SentenceCall ==
    /\ pc = "idle"
    /\ ctx = CtxInit
    /\ \E caption \in PlainInputs, t \in 0..(MaxStart + MaxSpan) :
           HelperCall(caption, "sentence", t)

MinimalCall ==
    /\ pc = "idle"
    /\ ctx = CtxInit
    /\ \E caption \in PlainInputs, t \in 0..(MaxStart + MaxSpan) :
           HelperCall(caption, "minimal", t)

CaptionNext ==
    \/ KaraokeCall
    \/ SentenceCall
    \/ MinimalCall

\* the caption helpers, each called on the inputs above
CaptionSpec == Init /\ [][CaptionNext]_vars

\* a call with a few scenes, and no captions
CallLoop ==
    \E ss \in UNION {[1..n -> [duration : 0..LoopDur, hasUrl : BOOLEAN]] : n \in 0..LoopScenes} :
        ComposeVideo(ss, <<>>, "karaoke")

LoopNext ==
    \/ CallLoop
    \/ ImageLoaded
    \/ ImageError
    \/ PlaceholderLoaded
    \/ AudioLoadedMetadata
    \/ AudioError
    \/ PlayResolved
    \/ PlayRejected
    \/ Tick
    \/ DataAvailable
    \/ RecorderStopped
    \/ Advance

\* the runs of a few scenes; every task the browser has queued is run, and
\* the clock does not stop
LoopSpec ==
    /\ Init /\ [][LoopNext]_vars
    /\ WF_vars(ImageLoaded) /\ WF_vars(ImageError) /\ WF_vars(PlaceholderLoaded)
    /\ WF_vars(AudioLoadedMetadata) /\ WF_vars(AudioError)
    /\ WF_vars(PlayResolved) /\ WF_vars(PlayRejected)
    /\ WF_vars(Tick) /\ WF_vars(DataAvailable) /\ WF_vars(RecorderStopped)
    /\ WF_vars(Advance)

\* a call with one long scene without an image, and no captions
CallLong ==
    \E d \in 1..MaxLongDur :
        ComposeVideo(<<[duration |-> d, hasUrl |-> FALSE]>>, <<>>, "karaoke")

ProgressNext ==
    \/ CallLong
    \/ PlaceholderLoaded
    \/ AudioLoadedMetadata
    \/ PlayResolved
    \/ Tick
    \/ DataAvailable
    \/ RecorderStopped
    \/ Advance

\* the runs of one long scene whose audio loads
ProgressSpec == Init /\ [][ProgressNext]_vars

\* every task the browser has queued is run, and the clock does not stop
FairSpec ==
    /\ Spec
    /\ WF_vars(Call)
    /\ WF_vars(ImageLoaded)
    /\ WF_vars(ImageError)
    /\ WF_vars(PlaceholderLoaded)
    /\ WF_vars(AudioLoadedMetadata)
    /\ WF_vars(AudioError)
    /\ WF_vars(PlayResolved)
    /\ WF_vars(PlayRejected)
    /\ WF_vars(Tick)
    /\ WF_vars(DataAvailable)
    /\ WF_vars(RecorderStopped)
    /\ WF_vars(Advance)

\* ----------------------------------------------------------------- claims

\* number of messages of one kind in the log
RECURSIVE CountEv(_, _)
CountEv(lg, name) ==
    IF Len(lg) = 0 THEN 0
    ELSE CountEv(SubSeq(lg, 1, Len(lg) - 1), name)
         + (IF lg[Len(lg)].ev = name THEN 1 ELSE 0)

\* composeVideo has passed the computation of totalDuration and sceneTimings
TimingsBuilt == pc \in {"awaitPlay", "awaitStop", "done"}

\* at least one call of animate has run
Ticked == composited \/ tickThrew # "no"

RECURSIVE SumLengths(_)
SumLengths(timings) ==
    IF Len(timings) = 0 THEN 0
    ELSE SumLengths(SubSeq(timings, 1, Len(timings) - 1))
         + (timings[Len(timings)].end - timings[Len(timings)].start)

\* C1: every call of composeVideo eventually gives the caller an outcome, a
\* blob or a failure, whatever the images, the audio element and the ticks do
C1_CallerGetsOutcome == (pc # "idle") ~> (result # "pending")

\* C2: a call with zero scenes fails with no side effect: when the failure is
\* reported the recorder and the audio playback were never started and the
\* recorder, the audio element and the audio context are not running
C2_ZeroScenesNoSideEffects ==
    (pc = "done" /\ Len(scenes) = 0) =>
        /\ result = "null"
        /\ recStarts = 0
        /\ playCalls = 0
        /\ recPhase # "recording"
        /\ audioPaused
        /\ audioCtx # "running"

\* C3: with an empty timeline (no scene, or durations that sum to 0)
\* composeVideo returns a failure, never a blob
C3_EmptyTimelineNoArtifact ==
    (pc = "done" /\ (Len(scenes) = 0 \/ SumDurations(scenes) = 0)) => result = "null"

\* C4: once a tick has thrown, the audio is paused, the recorder is stopped
\* and exactly one failure has been reported to the caller
C4_TickThrowAborts ==
    tickThrew # "no" =>
        /\ audioPaused
        /\ recPhase # "recording"
        /\ result = "null"
        /\ CountEv(log, "Error") = 1

\* C5: when the audio element reports an error during the metadata wait the
\* recorder is never started, no frame is recorded and no blob is returned
C5_AudioErrorFailsBeforeRecording ==
    audioErr =>
        /\ recStarts = 0
        /\ ~composited
        /\ result # "blob"
        /\ (pc = "done" => result = "null")

\* C6: a recorder stopped without a non-empty chunk makes composeVideo fail
\* instead of returning an empty blob
C6_NoEmptyArtifact == result = "blob" => blobSize > 0

\* C7: the scene timings are contiguous, do not overlap and cover
\* [0, totalDuration): the first starts at 0, each starts where the previous
\* one ends, interval i is as long as scene i, the last ends at totalDuration
\* and the lengths sum to the sum of the scene durations
C7_TimingsContiguous ==
    TimingsBuilt =>
        LET n == Len(sceneTimings)
        IN  /\ n = Len(scenes)
            /\ n > 0 => sceneTimings[1].start = 0 /\ sceneTimings[n].end = totalDuration
            /\ n = 0 => totalDuration = 0
            /\ \A i \in 1..n : sceneTimings[i].end - sceneTimings[i].start = scenes[i].duration
            /\ \A i \in 1..(n - 1) : sceneTimings[i + 1].start = sceneTimings[i].end
            /\ \A i, j \in 1..n : i < j => sceneTimings[i].end <= sceneTimings[j].start
            /\ SumLengths(sceneTimings) = SumDurations(scenes)

\* C7 witness: timings built for two scenes of different positive durations
C7_Witness ==
    /\ TimingsBuilt
    /\ Len(scenes) = 2
    /\ scenes[1].duration = 2
    /\ scenes[2].duration = 1

PositiveScenes == Len(scenes) > 0 /\ \A i \in 1..Len(scenes) : scenes[i].duration > 0

\* C8: for a non-empty scene list with positive durations the active-scene
\* lookup yields, for every t in [0, totalDuration), the one interval with
\* start <= t < end, and for every t >= totalDuration the last interval; the
\* scene drawn at a tick is the one so selected
C8_ActiveSceneTotal ==
    (TimingsBuilt /\ PositiveScenes) =>
        LET n == Len(sceneTimings)
            Within(i, t) == sceneTimings[i].start <= t /\ t < sceneTimings[i].end
        IN  /\ \A t \in 0..(totalDuration + Overrun) :
                LET c == CurrentScene(sceneTimings, t)
                IN  /\ c \in 1..n
                    /\ t < totalDuration =>
                          Within(c, t) /\ \A j \in 1..n : Within(j, t) => j = c
                    /\ t >= totalDuration => c = n
            /\ frame.drawn =>
                /\ frame.scene \in 1..n
                /\ frame.currentTime < totalDuration => Within(frame.scene, frame.currentTime)
                /\ frame.currentTime >= totalDuration => frame.scene = n

\* C8 witness: a tick past the end of a two-scene timeline drew the last scene
C8_Witness ==
    /\ PositiveScenes
    /\ Len(scenes) = 2
    /\ frame.drawn
    /\ frame.currentTime > totalDuration
    /\ frame.scene = 2

\* C9: in a run that reaches recording the loop pauses the audio and stops the
\* recorder exactly once, at the first tick with elapsed >= totalDuration;
\* every earlier tick schedules the next tick; after the stop no tick is
\* scheduled and no frame is composited
C9_StopsOnceAtEndTick ==
    /\ endTick => recStops = 1 /\ pauseCalls = 1
    /\ (Ticked /\ ~endTick) => rafPending /\ recStops = 0
    /\ recStops > 0 => ~rafPending /\ ~lateFrame

StepPercent == Percent(Elapsed(now, startTime'), totalDuration)

\* this step calls onProgress(`Recording: ${StepPercent}%`)
EmitsPercent ==
    \E i \in DOMAIN log' :
        /\ log'[i] = Ev("RecordingPercent", StepPercent)
        /\ (i > Len(log) \/ log[i] # log'[i])

\* the percentages reported go up and stay within 100
PercentGoesUp ==
    EmitsPercent =>
        /\ StepPercent <= PercentScale
        /\ StepPercent > 0
        /\ (Len(log) > 0 /\ log[Len(log)].ev = "RecordingPercent")
               => StepPercent > log[Len(log)].n

\* C11 (as the code has it): a call of animate reports 'Recording: N%' if
\* and only if the integer percentage is at least 5 above the last reported
\* one (0 before any report); the reported percentages are strictly
\* increasing and never exceed 100
C11_ReportsFiveAhead ==
    [][(Tick \/ PlayResolved) =>
          /\ EmitsPercent <=> StepPercent >= lastProgress + ProgressStep + 1
          /\ PercentGoesUp]_vars

\* C11 as stated: the report is made as soon as the percentage is at least
\* 4 above the last reported one
C11_ReportsFourAhead ==
    [][(Tick \/ PlayResolved) =>
          /\ EmitsPercent <=> StepPercent >= lastProgress + ProgressStep
          /\ PercentGoesUp]_vars

\* a frame was drawn at a percentage exactly 4 above the last reported one
C11_Witness ==
    /\ frame.drawn
    /\ totalDuration > 0
    /\ Percent(frame.currentTime, totalDuration) = lastProgress + ProgressStep

\* the image loop is over
ImagesLoaded == pc \in {"awaitAudio", "awaitPlay", "awaitStop", "done"}

\* C19: after asset loading images has one entry per scene, in scene order;
\* a scene without an image URL, or whose image failed to load, has the
\* placeholder numbered i + 1 (i its index from 0), and every other scene its
\* own image; while the images load, composeVideo reports no error and
\* returns nothing
C19_OneImagePerScene ==
    /\ Len(images) <= Len(loadOutcome)
    /\ Len(loadOutcome) <= Len(scenes)
    /\ ImagesLoaded => Len(images) = Len(scenes) /\ Len(loadOutcome) = Len(scenes)
    /\ \A i \in 1..Len(loadOutcome) : loadOutcome[i] = "none" <=> ~scenes[i].hasUrl
    /\ \A i \in 1..Len(images) :
          IF loadOutcome[i] = "load"
          THEN images[i] = [kind |-> "image", num |-> i]
          ELSE images[i] = [kind |-> "placeholder", num |-> i]
    /\ pc \in {"awaitImage", "awaitPlaceholder", "awaitAudio"}
          => result = "pending" /\ CountEv(log, "Error") = 0

\* a video was returned although the image of the first scene failed to
\* load; the second scene has its own image
C19_Witness ==
    /\ result = "blob"
    /\ loadOutcome = <<"error", "load">>
    /\ images[2].kind = "image"

\* the caption that the last call drew
Drawn(tmpl) == out.drawn /\ out.caption > 0 /\ template = tmpl

OutCaption == captions[out.caption]

\* a karaoke call whose caption has word timings
KaraokeDrawn == Drawn("karaoke") /\ Len(OutCaption.words) > 0

OutIdx == KaraokeIndex(OutCaption.words, out.t)

OutWindow == KaraokeWindow(Len(OutCaption.words), OutIdx)

IsPrefix(a, b) == Len(a) <= Len(b) /\ SubSeq(b, 1, Len(a)) = a

\* C13: for every word list of length len >= 1 and every current word
\* index, -1 and len - 1 included, the karaoke window has
\* 0 <= startIdx <= endIdx <= len and at most 8 words, and these are the
\* words drawn
C13_KaraokeWindowBounded ==
    KaraokeDrawn =>
        /\ 0 <= OutWindow.startIdx
        /\ OutWindow.startIdx <= OutWindow.endIdx
        /\ OutWindow.endIdx <= Len(OutCaption.words)
        /\ OutWindow.endIdx - OutWindow.startIdx <= 8
        /\ Len(TextOps(out.ops)) = OutWindow.endIdx - OutWindow.startIdx

\* the last of more than 8 words is the current one: the window is the
\* last 8 words
C13_Witness ==
    /\ KaraokeDrawn
    /\ Len(OutCaption.words) > 8
    /\ OutIdx = Len(OutCaption.words) - 1
    /\ OutWindow.startIdx = Len(OutCaption.words) - 8
    /\ Len(TextOps(out.ops)) = 8

\* C14: with word timings in time order, the karaoke current word index is
\* the index of the (first) word whose [start, end) contains t, and when no
\* word contains t, the index of the last word whose end <= t
C14_CurrentWordIndex ==
    KaraokeDrawn =>
        LET timed == OutCaption.words
            containing == {i \in 1..Len(timed) : timed[i].start <= out.t /\ out.t < timed[i].end}
            over == {i \in 1..Len(timed) : timed[i].end <= out.t}
        IN  /\ containing # {}
                  => OutIdx + 1 \in containing /\ \A j \in containing : OutIdx + 1 <= j
            /\ (containing = {} /\ over # {})
                  => OutIdx + 1 \in over /\ \A j \in over : j <= OutIdx + 1

\* t falls in a gap after two words: the second is the current word
C14_Witness ==
    /\ KaraokeDrawn
    /\ OutCaption = Gapped
    /\ out.t = 6
    /\ OutIdx = 1

Highlighted(o) ==
    /\ o.ctx.fillStyle = "#FFD700"
    /\ o.ctx.font = [weight |-> "bold", size |-> "fontSize*1.1"]
    /\ o.ctx.shadowColor = "#FFD700"
    /\ o.ctx.shadowBlur = 15

InTextColour(o) ==
    /\ o.ctx.fillStyle = "settings.textColor"
    /\ o.ctx.font = [weight |-> "bold", size |-> "fontSize"]
    /\ o.ctx.shadowBlur = 0

Dimmed(o) ==
    /\ o.ctx.fillStyle = "rgba(255, 255, 255, 0.5)"
    /\ o.ctx.font = [weight |-> "bold", size |-> "fontSize"]
    /\ o.ctx.shadowBlur = 0

\* C15: in a karaoke frame the j-th word drawn, over both lines, is the word
\* at index startIdx + j - 1 of the caption's word list; it is drawn in the
\* text colour when that index is below the current index, highlighted
\* (gold, enlarged, glow) when equal, dimmed when above.  Hello 0-0.5,
\* world 0.5-1.2 at t = 0.3: Hello highlighted, world dimmed
C15_StyleByWordIndex ==
    KaraokeDrawn =>
        LET texts == TextOps(out.ops)
        IN  /\ \A j \in 1..Len(texts) :
                  LET g == OutWindow.startIdx + j - 1
                  IN  /\ texts[j].text = OutCaption.words[g + 1].word
                      /\ g < OutIdx => InTextColour(texts[j])
                      /\ g = OutIdx => Highlighted(texts[j])
                      /\ g > OutIdx => Dimmed(texts[j])
            /\ (OutCaption = HelloWorld /\ out.t = 3)
                  => /\ Len(texts) = 2
                     /\ texts[1].text = <<"H", "e", "l", "l", "o">>
                     /\ Highlighted(texts[1])
                     /\ texts[2].text = <<"w", "o", "r", "l", "d">>
                     /\ Dimmed(texts[2])

\* the current word is on the second line, after words in the text colour
\* and before dimmed ones, in a window that does not start at the first word
C15_Witness ==
    /\ KaraokeDrawn
    /\ OutWindow.startIdx > 0
    /\ Len(TextOps(out.ops)) = 8
    /\ Highlighted(TextOps(out.ops)[6])
    /\ InTextColour(TextOps(out.ops)[5])
    /\ Dimmed(TextOps(out.ops)[7])

\* the words of the text of the caption drawn, and ceil(progress * len)
OutWords == Split(OutCaption.text)

OutCeil == Ceil((out.t - OutCaption.startTime) * Len(OutWords),
                OutCaption.endTime - OutCaption.startTime)

OutSentence ==
    SentenceWindow(Len(OutWords), ProgressNum(OutCaption, out.t, Len(OutWords)),
                   ProgressDen(OutCaption))

\* C17: for a caption of len words and startTime <= t < endTime the sentence
\* variant selects [startWordIdx, endWordIdx) with
\* endWordIdx = min(len, ceil(progress * len) + 4) and
\* startWordIdx = max(0, endWordIdx - 8); the range is non-empty, inside
\* [0, len] and at most 8 words long, and once ceil(progress * len) + 4 >= len
\* it is the last min(8, len) words
C17_SentenceWindow ==
    Drawn("sentence") =>
        /\ OutCaption.startTime <= out.t /\ out.t < OutCaption.endTime
        /\ OutSentence.endWordIdx
              = (IF OutCeil + 4 < Len(OutWords) THEN OutCeil + 4 ELSE Len(OutWords))
        /\ OutSentence.startWordIdx
              = (IF OutSentence.endWordIdx > 8 THEN OutSentence.endWordIdx - 8 ELSE 0)
        /\ 0 <= OutSentence.startWordIdx
        /\ OutSentence.startWordIdx < OutSentence.endWordIdx
        /\ OutSentence.endWordIdx <= Len(OutWords)
        /\ OutSentence.endWordIdx - OutSentence.startWordIdx <= 8
        /\ OutCeil + 4 >= Len(OutWords)
              => /\ OutSentence.endWordIdx = Len(OutWords)
                 /\ OutSentence.endWordIdx - OutSentence.startWordIdx
                       = (IF Len(OutWords) < 8 THEN Len(OutWords) ELSE 8)

\* late in a caption of more than 8 words: the last 8 words are selected
C17_Witness ==
    /\ Drawn("sentence")
    /\ Len(OutWords) > 8
    /\ OutCeil + 4 >= Len(OutWords)
    /\ out.t > OutCaption.startTime
    /\ OutSentence.startWordIdx = Len(OutWords) - 8
    /\ Len(TextOps(out.ops)) > 0

\* the lines drawn, joined by blanks
OutLines == Join([i \in 1..Len(TextOps(out.ops)) |-> TextOps(out.ops)[i].text])

OutMinimal ==
    MinimalWindow(Len(OutWords), ProgressNum(OutCaption, out.t, Len(OutWords)),
                  ProgressDen(OutCaption))

\* C18: the sentence variant draws at most 2 lines, and the words on them
\* are the words of the selected window from its first word on, in order
\* (words are dropped from the tail only); the minimal variant draws a
\* single line of at most 50 characters, the start of its selected words
C18_LinesBounded ==
    /\ Drawn("sentence") =>
          /\ Len(TextOps(out.ops)) <= 2
          /\ Len(TextOps(out.ops)) >= 1
          /\ IsPrefix(OutLines, Join(Slice(OutWords, OutSentence.startWordIdx,
                                            OutSentence.endWordIdx)))
          /\ OutLines[Len(OutLines)] # " "
    /\ Drawn("minimal") =>
          /\ Len(TextOps(out.ops)) = 1
          /\ Len(OutLines) <= 50
          /\ IsPrefix(OutLines, Join(Slice(OutWords, OutMinimal.startIdx,
                                            OutMinimal.endIdx)))

\* the selected words do not fit on two lines: the last ones are not drawn
C18_Witness ==
    /\ Drawn("sentence")
    /\ Len(TextOps(out.ops)) = 2
    /\ Len(OutLines) < Len(Join(Slice(OutWords, OutSentence.startWordIdx,
                                       OutSentence.endWordIdx)))

\* the selected words of a minimal caption are cut after 50 characters
C18_MinimalCut ==
    /\ Drawn("minimal")
    /\ Len(OutLines) = 50
    /\ Len(Join(Slice(OutWords, OutMinimal.startIdx, OutMinimal.endIdx))) > 50

\* the calls of a frame without the settings in effect
Calls(ops) == [i \in 1..Len(ops) |-> [op |-> ops[i].op, text |-> ops[i].text, image |-> ops[i].image]]

\* C12: compositing is stateless per call: the calls made for the frame at
\* (captions, settings, t), with the settings in effect at each call, are
\* those made for the first frame on a fresh context, whatever frames were
\* drawn before
C12_FrameStateless ==
    out.drawn =>
        out.ops = DrawFrame(CtxInit, out.ops[2].image, captions, template, out.t).ops

\* C16: with the word-by-word template a frame drawn while a caption is
\* active shows exactly one word, uppercased; when the caption has word
\* timings, a word whose [start, end) contains t
C16_OneWordPerFrame ==
    Drawn("word-by-word") =>
        /\ Len(TextOps(out.ops)) = 1
        /\ Len(OutCaption.words) > 0 =>
              \E i \in 1..Len(OutCaption.words) :
                  /\ OutCaption.words[i].start <= out.t
                  /\ out.t < OutCaption.words[i].end
                  /\ TextOps(out.ops)[1].text = ToUpperCase(OutCaption.words[i].word)

\* the captions active at the time of the frame
OutActive ==
    {i \in 1..Len(captions) : captions[i].startTime <= out.t /\ out.t < captions[i].endTime}

\* C20: at every tick the caption drawn is the first one in list order with
\* startTime <= t < endTime; when there is none the frame has its black
\* background and the image of the scene, and nothing else
C20_FirstActiveCaption ==
    out.drawn =>
        /\ frame.drawn /\ frame.currentTime = out.t
        /\ Len(out.ops) >= 2
        /\ out.ops[1].op = "fillRect" /\ out.ops[1].ctx.fillStyle = "#000000"
        /\ out.ops[2].op = "drawImage"
        /\ out.ops[2].image = sceneTimings[frame.scene].image
        /\ OutActive = {} => out.caption = 0 /\ Len(out.ops) = 2
        /\ OutActive # {} =>
              /\ out.caption \in OutActive
              /\ \A j \in OutActive : out.caption <= j
              /\ Calls(out.ops)
                    = Calls(DrawFrame(CtxInit, out.ops[2].image,
                                      <<captions[out.caption]>>, template, out.t).ops)

\* two captions are active at the time of the frame, the first is drawn
C20_Witness ==
    /\ out.drawn
    /\ Cardinality(OutActive) = 2
    /\ out.caption = 1
    /\ Len(out.ops) > 2

\* a frame in a gap between two captions
C20_GapFrame ==
    /\ out.drawn
    /\ Len(captions) = 2
    /\ OutActive = {}
    /\ out.t < captions[2].startTime

\* the place of a progress event in the lifecycle
Rank(e) ==
    CASE e.ev \in {"LoadingImages", "LoadingImage"} -> 1
      [] e.ev = "PreparingAudio" -> 2
      [] e.ev = "SettingUp" -> 3
      [] e.ev \in {"Recording", "RecordingPercent"} -> 4
      [] e.ev = "Finalizing" -> 5
      [] e.ev = "VideoReady" -> 6
      [] e.ev = "Error" -> 7

StageEvents ==
    {"LoadingImages", "PreparingAudio", "SettingUp", "Recording", "Finalizing",
     "VideoReady", "Error"}

\* C22: the progress events of a run follow the order Loading images,
\* Preparing audio, Setting up recording, Recording (with % updates),
\* Finalizing, Video ready; each stage is entered at most once; 'Video
\* ready!' and 'Error:' never both occur, each at most once, and no event
\* follows either
C22_LifecycleOrder ==
    /\ \A i \in 1..Len(log) : \A j \in i..Len(log) : Rank(log[i]) <= Rank(log[j])
    /\ \A name \in StageEvents : CountEv(log, name) <= 1
    /\ \A i \in 1..Len(log) : log[i].ev = "RecordingPercent" =>
          \E j \in 1..(i - 1) : log[j].ev = "Recording"
    /\ CountEv(log, "VideoReady") + CountEv(log, "Error") <= 1
    /\ \A i \in 1..Len(log) : log[i].ev \in {"VideoReady", "Error"} => i = Len(log)
    /\ result = "blob" <=> CountEv(log, "VideoReady") = 1
    /\ result = "null" <=> CountEv(log, "Error") = 1

\* a run that went through every stage, with a percentage reported
C22_Witness ==
    /\ result = "blob"
    /\ CountEv(log, "RecordingPercent") = 1
    /\ CountEv(log, "LoadingImage") = 2
    /\ log[Len(log)].ev = "VideoReady"
    /\ log[Len(log) - 1].ev = "Finalizing"

\* an asset does not load, the timeline is empty, or a tick threw
NoVideoExpected ==
    \/ imgFate = "never"
    \/ audioFate \in {"never", "error"}
    \/ audioErr
    \/ tickThrew # "no"
    \/ pc # "idle" /\ SumDurations(scenes) = 0

\* composeVideo returned the blob after the recorder's stop event, having
\* reported 'Finalizing video...' and then 'Video ready!'; no tick is pending
ReturnedVideo ==
    /\ result = "blob"
    /\ recPhase = "stopped"
    /\ recStops = 1
    /\ ~rafPending
    /\ Len(log) >= 2
    /\ log[Len(log) - 1].ev = "Finalizing"
    /\ log[Len(log)].ev = "VideoReady"

\* C30: a run with a scene, totalDuration > 0, whose assets load and whose
\* ticks do not throw, with ticks run and the clock advancing, makes
\* finitely many ticks, stops the recorder, and resolves with the blob after
\* the recorder's stop event, 'Finalizing video...' and 'Video ready!'
C30_LoopEnds == (pc # "idle") ~> (ReturnedVideo \/ NoVideoExpected)

\* a run returned its video after its image loaded and the clock advanced
C30_Witness ==
    /\ ReturnedVideo
    /\ ~NoVideoExpected
    /\ scenes[1].hasUrl
    /\ Elapsed(now, startTime) > 1

\* C23: every line drawn by the sentence variant has a measured width of at
\* most the usable width
C23_LinesFit ==
    Drawn("sentence") =>
        \A i \in 1..Len(TextOps(out.ops)) :
            MeasureText(TextOps(out.ops)[i].text) <= LineWidth

\* the words drawn highlighted in the last frame
OutHighlighted ==
    {j \in 1..Len(TextOps(out.ops)) : Highlighted(TextOps(out.ops)[j])}

\* C24 (as the code has it): in a karaoke frame for an active caption with
\* word timings the current word index is in [-1, len); it is -1 when no
\* word has started at t, and then no word is highlighted and every visible
\* word is dimmed; otherwise exactly one visible word is highlighted
C24_OneHighlightOnceStarted ==
    KaraokeDrawn =>
        /\ OutIdx >= 0 - 1
        /\ OutIdx < Len(OutCaption.words)
        /\ OutIdx = 0 - 1 <=>
              \A i \in 1..Len(OutCaption.words) : out.t < OutCaption.words[i].start
        /\ OutIdx >= 0 => Cardinality(OutHighlighted) = 1
        /\ OutIdx = 0 - 1 =>
              /\ OutHighlighted = {}
              /\ \A j \in 1..Len(TextOps(out.ops)) : Dimmed(TextOps(out.ops)[j])

\* C24 as stated: the current word index is always in [0, len) and exactly
\* one visible word is highlighted
C24_AlwaysOneHighlight ==
    KaraokeDrawn =>
        /\ OutIdx >= 0
        /\ OutIdx < Len(OutCaption.words)
        /\ Cardinality(OutHighlighted) = 1

\* a frame at a time before the first word of the active caption starts
C24_Witness ==
    /\ KaraokeDrawn
    /\ out.t >= OutCaption.startTime
    /\ out.t < OutCaption.words[1].start
    /\ Len(TextOps(out.ops)) > 1
    /\ OutHighlighted = {}

\* C25: for len >= 1 and a current word index i in [0, len) the karaoke
\* window holds exactly min(8, len) words and contains word i, also after
\* the re-clamp from the end; without re-clamp word i is among the first 4
\* words of the window
C25_WindowHoldsCurrent ==
    (KaraokeDrawn /\ OutIdx >= 0) =>
        /\ OutWindow.endIdx - OutWindow.startIdx
              = (IF Len(OutCaption.words) < 8 THEN Len(OutCaption.words) ELSE 8)
        /\ OutWindow.startIdx <= OutIdx
        /\ OutIdx < OutWindow.endIdx
        /\ OutWindow.startIdx = (IF OutIdx > 3 THEN OutIdx - 3 ELSE 0)
              => OutIdx - OutWindow.startIdx < 4
        /\ Highlighted(TextOps(out.ops)[OutIdx - OutWindow.startIdx + 1])

\* the window was re-clamped from the end of a list of more than 8 words
C25_Witness ==
    /\ KaraokeDrawn
    /\ Len(OutCaption.words) > 8
    /\ OutIdx >= 0
    /\ OutWindow.startIdx < OutIdx - 3
    /\ OutWindow.endIdx = Len(OutCaption.words)
    /\ Len(TextOps(out.ops)) = 8

\* ------------------------------------------------- the captions the editor builds

\* a time of num/den seconds
Time(num, den) == [num |-> num, den |-> den]
\* a < b and a <= b on times
Before(a, b) == a.num * b.den < b.num * a.den
NotAfter(a, b) == a.num * b.den <= b.num * a.den

\* the while loop of createCaptionsFromTranscription: the index after the
\* last word from wordIndex on that starts before sceneEndTime
RECURSIVE WordsUpTo(_, _, _)
WordsUpTo(words, wordIndex, sceneEndTime) ==
    IF wordIndex <= Len(words) /\ Before(words[wordIndex].start, Time(sceneEndTime, 1))
    THEN WordsUpTo(words, wordIndex + 1, sceneEndTime)
    ELSE wordIndex

\* the for loop of createCaptionsFromTranscription from scene i on
RECURSIVE CaptionsFromScene(_, _, _, _, _)
CaptionsFromScene(words, ss, i, wordIndex, sceneStartTime) ==
    IF i > Len(ss) THEN <<>>
    ELSE LET sceneEndTime == sceneStartTime + ss[i].duration
             next == WordsUpTo(words, wordIndex, sceneEndTime)
             sceneWords == SubSeq(words, wordIndex, next - 1)
             rest == CaptionsFromScene(words, ss, i + 1, next, sceneEndTime)
         IN  IF Len(sceneWords) > 0
             THEN <<[id |-> i - 1,
                     startTime |-> Time(sceneStartTime, 1),
                     endTime |-> Time(sceneEndTime, 1),
                     text |-> Join([j \in 1..Len(sceneWords) |-> sceneWords[j].word]),
                     words |-> sceneWords]>> \o rest
             ELSE rest

createCaptionsFromTranscription(words, ss) == CaptionsFromScene(words, ss, 1, 1, 0)

\* strs.filter(Boolean): the empty strings are dropped
FilterBoolean(strs) == SelectSeq(strs, LAMBDA w : Len(w) > 0)

\* let currentTime of the fallback when it reaches scene i
RECURSIVE CurrentTime(_, _)
CurrentTime(ss, i) == IF i = 1 THEN 0 ELSE CurrentTime(ss, i - 1) + ss[i - 1].duration

\* the fallback: one caption per scene, its words spread evenly over the scene
FallbackCaptions(ss) ==
    [i \in 1..Len(ss) |->
        LET words == FilterBoolean(SplitBlanks(ss[i].text))
            n == Len(words)
            currentTime == CurrentTime(ss, i)
        IN  [id |-> i - 1,
             startTime |-> Time(currentTime, 1),
             endTime |-> Time(currentTime + ss[i].duration, 1),
             text |-> ss[i].text,
             words |-> [wi \in 1..n |->
                 [word |-> words[wi],
                  start |-> Time(currentTime * n + (wi - 1) * ss[i].duration, n),
                  end |-> Time(currentTime * n + wi * ss[i].duration, n)]]]]

\* step 4 of runAutomatedPipeline: transcription is <<>> for null
BuildCaptions(transcription, ss) ==
    LET timed == IF Len(transcription) > 0
                 THEN createCaptionsFromTranscription(transcription, ss)
                 ELSE <<>>
    IN  IF Len(timed) = 0
        THEN [from |-> "fallback", scenes |-> ss, words |-> transcription,
              captions |-> FallbackCaptions(ss)]
        ELSE [from |-> "transcription", scenes |-> ss, words |-> transcription,
              captions |-> timed]

\* a scene text of n one-letter words
SceneText(n) == Join([i \in 1..n |-> Letters(1)])
\* the scene texts: up to BuildWords words, or a blank only
SceneTexts == {SceneText(n) : n \in 0..BuildWords} \cup {<<" ">>}
\* the scene lists of a project: every scene of a list has the same text
BuiltSceneLists ==
    UNION {{[i \in 1..n |-> [duration |-> d[i], text |-> txt]] :
                d \in [1..n -> 1..BuildDur], txt \in SceneTexts} : n \in 0..BuildScenes}
\* a word the transcription service heard from start to end
Heard(start, end) == [word |-> Letters(1), start |-> Time(start, 1), end |-> Time(end, 1)]
\* the transcriptions: null, or words in the order spoken, none ending before
\* it starts or before the word before it
Transcriptions ==
    UNION {{w \in [1..n -> {Heard(a, b) : a \in 0..BuildTime, b \in 0..BuildTime}] :
                \A i \in 1..n :
                    /\ NotAfter(w[i].start, w[i].end)
                    /\ i > 1 => /\ NotAfter(w[i - 1].start, w[i].start)
                                /\ NotAfter(w[i - 1].end, w[i].end)} : n \in 0..BuildWords}

\* the captions step of the pipeline on a project that has none
BuildProjectCaptions ==
    /\ built.from = "none"
    /\ \E transcription \in Transcriptions, ss \in BuiltSceneLists :
          built' = BuildCaptions(transcription, ss)
    /\ UNCHANGED <<composerVars, shareVars, storeVars, appVars, pipeline, written>>

BuildNext ==
    \/ BuildProjectCaptions

\* the captions the editor builds for the scenes and transcriptions
BuildSpec == Init /\ [][BuildNext]_vars

\* C21: every caption the editor builds has its word timings in
\* non-decreasing order, every word's start and end inside the caption's
\* [startTime, endTime]
C21_WordsInsideCaption ==
    \A c \in 1..Len(built.captions) :
        LET caption == built.captions[c]
        IN  \A i \in 1..Len(caption.words) :
                /\ NotAfter(caption.words[i].start, caption.words[i].end)
                /\ i > 1 => NotAfter(caption.words[i - 1].start, caption.words[i].start)
                /\ NotAfter(caption.startTime, caption.words[i].start)
                /\ NotAfter(caption.words[i].end, caption.endTime)

\* the same, for the captions the fallback builds from the scene texts
C21_FallbackWordsInside ==
    built.from = "fallback" => C21_WordsInsideCaption

\* ------------------------------------- composeVideo calls on the shared instance

\* type AspectRatio
AspectRatios == {"16:9", "9:16", "1:1"}

\* composeVideo(..., aspectRatio, ...) by caller r up to its first await on an
\* asset: load() has made a new canvas and set this.canvas, this.ctx,
\* this.width and this.height
ShareCall(r, aspectRatio) ==
    /\ composing[r].at = "idle"
    /\ canvasCount < MaxCanvases
    /\ canvasCount' = canvasCount + 1
    /\ thisCanvas' = canvasCount + 1
    /\ thisDims' = aspectRatio
    /\ composing' = [composing EXCEPT ![r] =
            [at |-> "loading", aspectRatio |-> aspectRatio,
             canvas |-> canvasCount + 1, recorded |-> 0]]
    /\ painted' = NoPaint

\* caller r's call from the end of the metadata wait to "await audio.play()":
\* this.canvas.captureStream(30) and the MediaRecorder on that stream
ShareSetUp(r) ==
    /\ composing[r].at = "loading"
    /\ composing' = [composing EXCEPT ![r].at = "recording", ![r].recorded = thisCanvas]
    /\ painted' = NoPaint
    /\ UNCHANGED <<thisCanvas, thisDims, canvasCount>>

\* a call of animate of caller r's call: drawFrame paints through this.ctx
\* with this.width and this.height
SharePaint(r) ==
    /\ composing[r].at = "recording"
    /\ painted' = [by |-> r, canvas |-> thisCanvas, dims |-> thisDims]
    /\ UNCHANGED <<thisCanvas, thisDims, canvasCount, composing>>

\* caller r's call returns
ShareReturn(r) ==
    /\ composing[r].at = "recording"
    /\ composing' = [composing EXCEPT ![r] = NoCall]
    /\ painted' = NoPaint
    /\ UNCHANGED <<thisCanvas, thisDims, canvasCount>>

ComposeShared ==
    /\ \E r \in Callers, aspectRatio \in AspectRatios : ShareCall(r, aspectRatio)
    /\ UNCHANGED <<composerVars, built, storeVars, appVars, pipeline, written>>

SetUpShared ==
    /\ \E r \in Callers : ShareSetUp(r)
    /\ UNCHANGED <<composerVars, built, storeVars, appVars, pipeline, written>>

PaintShared ==
    /\ \E r \in Callers : SharePaint(r)
    /\ UNCHANGED <<composerVars, built, storeVars, appVars, pipeline, written>>

ReturnShared ==
    /\ \E r \in Callers : ShareReturn(r)
    /\ UNCHANGED <<composerVars, built, storeVars, appVars, pipeline, written>>

ShareNext ==
    \/ ComposeShared
    \/ SetUpShared
    \/ PaintShared
    \/ ReturnShared

\* the calls of composeVideo the editor's pipeline and its re-render button
\* make on the one videoComposer
ShareSpec == Init /\ [][ShareNext]_vars

\* C26: a frame composited by one composeVideo run is drawn on the canvas
\* that this run's recorder captures, with this run's dimensions
C26_OwnCanvas ==
    painted.by # 0 =>
        /\ painted.canvas = composing[painted.by].recorded
        /\ painted.dims = composing[painted.by].aspectRatio

\* a run paints while it is the only call since its load(): then the frame is
\* on its own canvas
C26_AloneOwnCanvas ==
    (painted.by # 0 /\ composing[painted.by].canvas = canvasCount) =>
        /\ painted.canvas = composing[painted.by].recorded
        /\ painted.canvas = composing[painted.by].canvas
        /\ painted.dims = composing[painted.by].aspectRatio

\* --------------------------------------- the editor's automated pipeline

\* setProjectStatus(id, status) on the store's projects
SetProjectStatus(projs, id, status) == [projs EXCEPT ![id].status = status]

\* a step of a run: the store it leaves, where the run is suspended, the
\* project it read from the store, and the store writes made
Suspended(projs, at, project, writes) ==
    [projects |-> projs, at |-> at, project |-> project, written |-> writes]

\* the catch and finally blocks of runAutomatedPipeline, for the run of
\* project c: the status is written to the project of the closure
PipelineCatch(c, projs, writes) ==
    Suspended(SetProjectStatus(projs, c, "error"), "ended", 0, writes \cup {<<c, c>>})

\* step 5, compose video: cur is getState().currentProject
Step5(c, projs, cur, writes) ==
    IF cur = 0 THEN PipelineCatch(c, projs, writes)
    ELSE IF ~projs[cur].videoBlob
    THEN Suspended(SetProjectStatus(projs, cur, "composing_video"), "video", cur,
                   writes \cup {<<c, cur>>})
    ELSE Suspended(projs, "ended", 0, writes)

\* step 4, captions: without an audio blob the fallback captions are stored
\* at once
Step4(c, projs, cur, writes) ==
    IF cur = 0 THEN PipelineCatch(c, projs, writes)
    ELSE IF ~projs[cur].captions
    THEN LET gen == SetProjectStatus(projs, cur, "generating_captions")
         IN  IF projs[cur].audioBlob
             THEN Suspended(gen, "captions", cur, writes \cup {<<c, cur>>})
             ELSE Step5(c, [gen EXCEPT ![cur].captions = TRUE], cur,
                        writes \cup {<<c, cur>>})
    ELSE Step5(c, projs, cur, writes)

\* step 3, audio
Step3(c, projs, cur, writes) ==
    IF cur = 0 THEN PipelineCatch(c, projs, writes)
    ELSE IF ~projs[cur].audioBlob
    THEN Suspended(SetProjectStatus(projs, cur, "generating_audio"), "audio", cur,
                   writes \cup {<<c, cur>>})
    ELSE Step4(c, projs, cur, writes)

\* "Get fresh state" and step 2, images
Step2(c, projs, cur, writes) ==
    IF cur = 0 THEN PipelineCatch(c, projs, writes)
    ELSE IF ~projs[cur].images
    THEN Suspended(SetProjectStatus(projs, cur, "generating_images"), "images", cur,
                   writes \cup {<<c, cur>>})
    ELSE Step3(c, projs, cur, writes)

\* step 1, script, of the run for the project c of the closure
Step1(c, projs, cur) ==
    IF ~projs[c].script
    THEN Suspended(SetProjectStatus(projs, c, "generating_script"), "script", c, {<<c, c>>})
    ELSE Step2(c, projs, cur, {})

\* the run of project c goes on to where step leaves it; the finally block
\* clears the ref of the editor instance that started it
Resume(c, step) ==
    /\ projects' = step.projects
    /\ pipeline' = [pipeline EXCEPT ![c].at = step.at, ![c].project = step.project]
    /\ written' = step.written
    /\ isRunning' = IF step.at = "ended"
                     THEN [isRunning EXCEPT ![pipeline[c].editor] = FALSE]
                     ELSE isRunning

\* App renders <VideoEditor /> with currentProject cur in the store projs:
\* a new instance with a new isRunning ref is mounted, and its effect starts
\* the pipeline for a draft project
MountEditor(projs, cur) ==
    LET e == mounts + 1
        starts == projs[cur].status = "draft" /\ ~isRunning[e]
        step == Step1(cur, projs, cur)
    IN  /\ mounts < MaxMounts
        /\ mounts' = e
        /\ editor' = e
        /\ currentView' = "editor"
        /\ currentProject' = cur
        /\ IF starts
           THEN /\ projects' = step.projects
                /\ pipeline' = [pipeline EXCEPT ![cur] =
                        [at |-> step.at, editor |-> e, project |-> step.project]]
                /\ written' = step.written
                /\ isRunning' = [isRunning EXCEPT ![e] = step.at # "ended"]
           ELSE /\ projects' = projs
                /\ pipeline' = pipeline
                /\ written' = {}
                /\ UNCHANGED isRunning

\* Dashboard's handleCreateProject: createProject, then handleOpenProject
CreateProject ==
    /\ currentView = "dashboard"
    /\ \E p \in ProjectIds :
        /\ projects[p].status = "none"
        /\ \A q \in ProjectIds : q < p => projects[q].status # "none"
        /\ MountEditor([projects EXCEPT ![p].status = "draft"], p)
    /\ UNCHANGED <<composerVars, built, shareVars>>

\* a project card of the Dashboard: handleOpenProject(project)
OpenProject ==
    /\ currentView = "dashboard"
    /\ \E p \in ProjectIds :
        /\ projects[p].status # "none"
        /\ MountEditor(projects, p)
    /\ UNCHANGED <<composerVars, built, shareVars>>

\* the Sidebar's Video Editor item, enabled with a current project
NavigateToEditor ==
    /\ currentView # "editor"
    /\ currentProject # 0
    /\ MountEditor(projects, currentProject)
    /\ UNCHANGED <<composerVars, built, shareVars>>

\* the Sidebar's Dashboard and Settings items: leaving the editor view
\* unmounts the VideoEditor
NavigateAway ==
    /\ \E view \in {"dashboard", "settings"} :
        /\ view # currentView
        /\ currentView' = view
    /\ editor' = 0
    /\ written' = {}
    /\ UNCHANGED <<composerVars, built, shareVars, storeVars, mounts, isRunning, pipeline>>

\* geminiService.generateScript settles, for the run of project c
ScriptGenerated ==
    /\ \E c \in ProjectIds :
        /\ pipeline[c].at = "script"
        /\ \/ Resume(c, Suspended([projects EXCEPT ![c].script = TRUE], "pause", c,
                                   {<<c, c>>}))
           \/ Resume(c, PipelineCatch(c, projects, {}))
    /\ UNCHANGED <<composerVars, built, shareVars, currentProject, currentView, editor, mounts>>

\* the 500 ms timeout after the script step
PauseOver ==
    /\ \E c \in ProjectIds :
        /\ pipeline[c].at = "pause"
        /\ Resume(c, Step2(c, projects, currentProject, {}))
    /\ UNCHANGED <<composerVars, built, shareVars, currentProject, currentView, editor, mounts>>

\* cloudflareService.generateImage settles with a blob, with null or with an
\* error, for the last scene without an image
ImageGenerated ==
    /\ \E c \in ProjectIds :
        /\ pipeline[c].at = "images"
        /\ LET t == pipeline[c].project
           IN  \/ Resume(c, Step3(c, [projects EXCEPT ![t].images = TRUE],
                                  currentProject, {<<c, t>>}))
               \/ Resume(c, Step3(c, projects, currentProject, {}))
               \/ Resume(c, PipelineCatch(c, projects, {}))
    /\ UNCHANGED <<composerVars, built, shareVars, currentProject, currentView, editor, mounts>>

\* ttsService.generateSpeechForScenes settles with a blob, or with null or an
\* error
AudioGenerated ==
    /\ \E c \in ProjectIds :
        /\ pipeline[c].at = "audio"
        /\ LET t == pipeline[c].project
           IN  \/ Resume(c, Step4(c, [projects EXCEPT ![t].audioBlob = TRUE],
                                  currentProject, {<<c, t>>}))
               \/ Resume(c, PipelineCatch(c, projects, {}))
    /\ UNCHANGED <<composerVars, built, shareVars, currentProject, currentView, editor, mounts>>

\* cloudflareService.transcribeAudio settles: with words or with null the
\* captions are built and stored
Transcribed ==
    /\ \E c \in ProjectIds :
        /\ pipeline[c].at = "captions"
        /\ LET t == pipeline[c].project
           IN  \/ Resume(c, Step5(c, [projects EXCEPT ![t].captions = TRUE],
                                  currentProject, {<<c, t>>}))
               \/ Resume(c, PipelineCatch(c, projects, {}))
    /\ UNCHANGED <<composerVars, built, shareVars, currentProject, currentView, editor, mounts>>

\* videoComposer.composeVideo settles with a blob or with null
VideoComposed ==
    /\ \E c \in ProjectIds :
        /\ pipeline[c].at = "video"
        /\ LET t == pipeline[c].project
           IN  \/ Resume(c, Suspended(
                       SetProjectStatus([projects EXCEPT ![t].videoBlob = TRUE],
                                        t, "completed"),
                       "ended", 0, {<<c, t>>}))
               \/ Resume(c, PipelineCatch(c, projects, {}))
    /\ UNCHANGED <<composerVars, built, shareVars, currentProject, currentView, editor, mounts>>

EditorNext ==
    \/ CreateProject
    \/ OpenProject
    \/ NavigateToEditor
    \/ NavigateAway
    \/ ScriptGenerated
    \/ PauseOver
    \/ ImageGenerated
    \/ AudioGenerated
    \/ Transcribed
    \/ VideoComposed

\* the user at the dashboard and the editor, and the runs of the pipeline
EditorSpec == Init /\ [][EditorNext]_vars

\* every service call of a run settles, and the timeout fires
FairEditorSpec ==
    /\ EditorSpec
    /\ WF_vars(ScriptGenerated) /\ WF_vars(PauseOver) /\ WF_vars(ImageGenerated)
    /\ WF_vars(AudioGenerated) /\ WF_vars(Transcribed) /\ WF_vars(VideoComposed)

\* the runs in progress
Running == {p \in ProjectIds : pipeline[p].at \notin {"none", "ended"}}

\* C27: every store write of a pipeline run targets the project the run was
\* started for
C27_WritesOwnProject == \A w \in written : w[1] = w[2]

\* C28: at most one pipeline run is in progress at any time, and the running
\* guard of a run's editor is cleared when the run has ended
C28_OneRunAtATime ==
    /\ Cardinality(Running) <= 1
    /\ \A p \in ProjectIds : pipeline[p].at = "ended" => ~isRunning[pipeline[p].editor]

\* C29: every pipeline run that starts for a project ends with that project's
\* status 'completed' or 'error', and a project is 'completed' only with a
\* video blob stored for it
C29_RunSettlesItsProject ==
    /\ \A p \in ProjectIds :
          (pipeline[p].at # "none") ~>
              (pipeline[p].at = "ended" /\ projects[p].status \in {"completed", "error"})
    /\ [](\A p \in ProjectIds : projects[p].status = "completed" => projects[p].videoBlob)

=============================================================================
